---- MODULE Spec2Model ----
(***************************************************************************)
(* Bank OCR: the line parser (parse.rs), the mod-11 checksum and the       *)
(* single-segment correction search (checksum.rs) and the pull-based       *)
(* Processor that composes them (process.rs).                              *)
(*                                                                         *)
(* Characters are one-character strings; a line and an account number are  *)
(* sequences of characters (1-based here, 0-based columns in the code).    *)
(***************************************************************************)
EXTENDS Integers, Sequences, FiniteSets, TLC

VARIABLES
    register,      \* Parser.register : [u8; 9], indexed 0..8
    line_number,   \* Parser.line_number
    skip,          \* Parser.skip
    status,        \* the Status returned by the last process_line call
    lines,         \* Processor.lines: what the line source yields next
    taken,         \* the number of lines taken from the line source so far
    line,          \* the line the last process_line call was given
    result,        \* what the last iteration of Processor::next produced
    entry,         \* the lines of the current 4-line block taken so far
    statuses,      \* the Status returned for each line of entry
    emitted,       \* the Results returned while the current block was read
    discarded,     \* did the block before the current one return an Error?
    returned,      \* SpecRecorded: the line numbers of the Results returned
    called,        \* checksum.rs: the function called on its own, if any
    arg,           \* checksum.rs: the argument of that call
    ret            \* checksum.rs: what that call returned

vars == <<register, line_number, skip, status, lines, taken, line, result,
          entry, statuses, emitted, discarded, returned, called, arg, ret>>

parserVars == <<register, line_number, skip, status, lines, taken, line,
                result, entry, statuses, emitted, discarded, returned>>

checksumVars == <<called, arg, ret>>

-----------------------------------------------------------------------------
(* Bounds of the model *)

\* the line source yields at most this many lines
MaxLines == 8

\* the rightmost column (0-based) at which an input line is scribbled on
MaxCol == 28

\* checksum.rs called on its own: the number of digits in which an argument
\* differs from a printed account number
MaxChanged == 1

-----------------------------------------------------------------------------
(* Characters and machine integers *)

NumDigits == 9

\* '\0', the "no on-character" value of on_char
NUL == "NUL"

ILLEGIBLE == "?"

Digits == <<"0", "1", "2", "3", "4", "5", "6", "7", "8", "9">>

DigitChars == {Digits[i] : i \in 1..10}

\* no character taken for whitespace: `dig > 8` alone makes a line too long
is_whitespace_never(ch) == FALSE

\* char::is_whitespace, over the characters the line source uses
is_whitespace(ch) == ch \in {" ", "\t"}

Pow2(n) == CASE n = 0 -> 1 [] n = 1 -> 2 [] n = 2 -> 4 [] n = 3 -> 8
             [] n = 4 -> 16 [] n = 5 -> 32 [] n = 6 -> 64 [] n = 7 -> 128

TestBit(v, n) == (v \div Pow2(n)) % 2 = 1

\* v | (1 << n) on a u8
BitOr(v, n) == IF TestBit(v, n) THEN v ELSE v + Pow2(n)

\* v ^ (1 << n) on a u8
BitXor(v, n) == IF TestBit(v, n) THEN v - Pow2(n) ELSE v + Pow2(n)

-----------------------------------------------------------------------------
(* parse.rs: the segment codec *)

\* on_char that takes the fourth line for another top row
on_char_wraps(row, col) ==
    CASE row % 3 = 0 /\ col = 1 -> "_"
      [] row % 3 = 1 /\ col = 0 -> "|"
      [] row % 3 = 1 /\ col = 1 -> "_"
      [] row % 3 = 1 /\ col = 2 -> "|"
      [] row % 3 = 2 /\ col = 0 -> "|"
      [] row % 3 = 2 /\ col = 1 -> "_"
      [] row % 3 = 2 /\ col = 2 -> "|"
      [] OTHER -> NUL

on_char(row, col) ==
    CASE row = 0 /\ col = 0 -> NUL
      [] row = 0 /\ col = 1 -> "_"
      [] row = 0 /\ col = 2 -> NUL
      [] row = 1 /\ col = 0 -> "|"
      [] row = 1 /\ col = 1 -> "_"
      [] row = 1 /\ col = 2 -> "|"
      [] row = 2 /\ col = 0 -> "|"
      [] row = 2 /\ col = 1 -> "_"
      [] row = 2 /\ col = 2 -> "|"
      [] OTHER -> NUL

\* bit_pos counting the bits from one
bit_pos_from_one(row, col) ==
    CASE row = 0 /\ col = 1 -> 1
      [] row = 1 /\ col = 0 -> 2
      [] row = 1 /\ col = 1 -> 3
      [] row = 1 /\ col = 2 -> 4
      [] row = 2 /\ col = 0 -> 5
      [] row = 2 /\ col = 1 -> 6
      [] row = 2 /\ col = 2 -> 7
      [] OTHER -> 0

bit_pos(row, col) ==
    CASE row = 0 /\ col = 1 -> 0
      [] row = 1 /\ col = 0 -> 1
      [] row = 1 /\ col = 1 -> 2
      [] row = 1 /\ col = 2 -> 3
      [] row = 2 /\ col = 0 -> 4
      [] row = 2 /\ col = 1 -> 5
      [] row = 2 /\ col = 2 -> 6
      [] OTHER -> 7

\* read_register_digit with the patterns of 6 and 9 taken for each other
read_register_digit_swapped(reg_element) ==
    CASE reg_element = 123 -> "0"
      [] reg_element = 72  -> "1"
      [] reg_element = 61  -> "2"
      [] reg_element = 109 -> "3"
      [] reg_element = 78  -> "4"
      [] reg_element = 103 -> "5"
      [] reg_element = 111 -> "6"
      [] reg_element = 73  -> "7"
      [] reg_element = 127 -> "8"
      [] reg_element = 119 -> "9"
      [] OTHER -> ILLEGIBLE

\* read_register_digit that looks at the seven low bits only
read_register_digit_low_bits(reg_element) ==
    CASE reg_element % 128 = 123 -> "0"
      [] reg_element % 128 = 72  -> "1"
      [] reg_element % 128 = 61  -> "2"
      [] reg_element % 128 = 109 -> "3"
      [] reg_element % 128 = 78  -> "4"
      [] reg_element % 128 = 103 -> "5"
      [] reg_element % 128 = 119 -> "6"
      [] reg_element % 128 = 73  -> "7"
      [] reg_element % 128 = 127 -> "8"
      [] reg_element % 128 = 111 -> "9"
      [] OTHER -> ILLEGIBLE

read_register_digit(reg_element) ==
    CASE reg_element = 123 -> "0"     \* 0b01111011
      [] reg_element = 72  -> "1"     \* 0b01001000
      [] reg_element = 61  -> "2"     \* 0b00111101
      [] reg_element = 109 -> "3"     \* 0b01101101
      [] reg_element = 78  -> "4"     \* 0b01001110
      [] reg_element = 103 -> "5"     \* 0b01100111
      [] reg_element = 119 -> "6"     \* 0b01110111
      [] reg_element = 73  -> "7"     \* 0b01001001
      [] reg_element = 127 -> "8"     \* 0b01111111
      [] reg_element = 111 -> "9"     \* 0b01101111
      [] OTHER -> ILLEGIBLE

\* find_register_digit_close_matches with `0..6` for `0..=6`: bit 6 is
\* never flipped
RECURSIVE close_matches_below(_, _)
close_matches_below(reg_element, n) ==
    IF n > 5 THEN <<>>
    ELSE (IF read_register_digit(BitXor(reg_element, n)) # ILLEGIBLE
          THEN <<read_register_digit(BitXor(reg_element, n))>> ELSE <<>>)
             \o close_matches_below(reg_element, n + 1)

find_register_digit_close_matches_exclusive(reg_element) ==
    close_matches_below(reg_element, 0)

\* the loop of find_register_digit_close_matches from bit 6 down to bit n
RECURSIVE close_matches_down_to(_, _)
close_matches_down_to(reg_element, n) ==
    IF n > 6 THEN <<>>
    ELSE LET close_match == read_register_digit(BitXor(reg_element, n))
         IN  close_matches_down_to(reg_element, n + 1)
                 \o (IF close_match # ILLEGIBLE THEN <<close_match>> ELSE <<>>)

\* find_register_digit_close_matches over `(0..=6).rev()`
find_register_digit_close_matches_descending(reg_element) ==
    close_matches_down_to(reg_element, 0)

RECURSIVE close_matches_from(_, _)
close_matches_from(reg_element, n) ==
    IF n > 6 THEN <<>>
    ELSE LET close_match == read_register_digit(BitXor(reg_element, n))
         IN  (IF close_match # ILLEGIBLE THEN <<close_match>> ELSE <<>>)
                 \o close_matches_from(reg_element, n + 1)

find_register_digit_close_matches(reg_element) ==
    close_matches_from(reg_element, 0)

-----------------------------------------------------------------------------
(* parse.rs: Status and the Parser *)

Incomplete == [kind |-> "Incomplete"]

Success(account_number) ==
    [kind |-> "Success", account_number |-> account_number]

BadDigits(account_number, alternates) ==
    [kind |-> "BadDigits", account_number |-> account_number,
     alternates |-> alternates]

Error(message, ln, col, r) ==
    [kind |-> "Error", message |-> message, line_number |-> ln,
     col |-> col, row |-> r]

\* an index past the end of the 9-slot register aborts the program
Panic == [kind |-> "Panic"]

\* Parser::new
NewRegister == [index \in 0..(NumDigits - 1) |-> 0]

\* Parser::row counted from 1
row_one_based(ln) == ((ln - 1) % 4) + 1

\* Parser::row, for the line counter ln
row(ln) == (ln - 1) % 4

\* clear_register that clears nothing
keep_register(reg) == reg

\* Parser::clear_register
clear_register(reg) == [index \in DOMAIN reg |-> 0]

\* buffer with buffer[index] = dig, as a string
Substitute(buffer, index, dig) ==
    SubSeq(buffer, 1, index) \o <<dig>> \o SubSeq(buffer, index + 2, Len(buffer))

\* the strings of buffer with each of alt_digits in turn at index
RECURSIVE substitute_each(_, _, _)
substitute_each(buffer, index, alt_digits) ==
    IF alt_digits = <<>> THEN <<>>
    ELSE <<Substitute(buffer, index, Head(alt_digits))>>
             \o substitute_each(buffer, index, Tail(alt_digits))

\* the characters read_register_digit gives for the slots from index on
RECURSIVE read_digits_from(_, _)
read_digits_from(reg, index) ==
    IF index \notin DOMAIN reg THEN <<>>
    ELSE <<read_register_digit(reg[index])>> \o read_digits_from(reg, index + 1)

\* read_register that offers the close matches of the last illegible slot
\* however many slots are illegible
read_register_match_last(reg, buffer, bad) ==
    IF bad = {}
    THEN [success |-> TRUE, account_number |-> buffer, alternates |-> <<>>]
    ELSE [success |-> FALSE, account_number |-> buffer,
          alternates |->
              LET last_bad == CHOOSE index \in bad : \A other \in bad : other <= index
              IN  substitute_each(buffer, last_bad,
                      find_register_digit_close_matches(reg[last_bad]))]

\* the `match bad_cnt` of read_register, the slots decoded into buffer
read_register_match(reg, buffer, bad) ==
    CASE Cardinality(bad) = 0 ->
               [success |-> TRUE, account_number |-> buffer, alternates |-> <<>>]
      [] Cardinality(bad) = 1 ->
               [success |-> FALSE, account_number |-> buffer,
                alternates |->
                    LET last_bad == CHOOSE index \in bad : TRUE
                    IN  substitute_each(buffer, last_bad,
                            find_register_digit_close_matches(reg[last_bad]))]
      [] OTHER ->
               [success |-> FALSE, account_number |-> buffer, alternates |-> <<>>]

\* the indices of the illegible characters of buffer
illegible_indices(buffer) ==
    {index \in 0..(Len(buffer) - 1) : buffer[index + 1] = ILLEGIBLE}

\* the first loop of read_register done, buffer holding the decoded slots
read_register_buffer(reg, buffer) ==
    read_register_match(reg, buffer, illegible_indices(buffer))

\* Parser::read_register: (success, account_number, alternates)
read_register(reg) == read_register_buffer(reg, read_digits_from(reg, 0))

NoError == [kind |-> "NoError"]

ScanError(message, col) == [kind |-> "ScanError", message |-> message, col |-> col]

too_long_message == "Input line is too long."

expected_space_message(ch) == "Expected space but found '" \o ch \o "'."

expected_on_message(on, ch) ==
    "Expected space or '" \o on \o "' but found '" \o ch \o "'."

\* the `for ch in line.chars()` loop of process_line from column col on:
\* the register it leaves and the error it stopped at, if any
RECURSIVE scan(_, _, _, _)

\* the body of that loop with the length of the line tested last
scan_char_length_last(reg, r, l, col, ch, on) ==
    IF on = NUL /\ ch # " "
    THEN [register |-> reg,
          error |-> ScanError(expected_space_message(ch), col)]
    ELSE IF on # NUL /\ ch \notin {" ", on}
    THEN [register |-> reg,
          error |-> ScanError(expected_on_message(on, ch), col)]
    ELSE IF ~is_whitespace(ch) /\ col \div 3 > 8
    THEN [register |-> reg, error |-> ScanError(too_long_message, col)]
    ELSE IF on # NUL /\ ch = on
    THEN scan([reg EXCEPT ![col \div 3] = BitOr(@, bit_pos(r, col % 3))],
              r, l, col + 1)
    ELSE scan(reg, r, l, col + 1)

\* the body of that loop without its test of the length of the line
scan_char_any_length(reg, r, l, col, ch, on) ==
    IF on = NUL
    THEN IF ch # " "
         THEN [register |-> reg,
               error |-> ScanError(expected_space_message(ch), col)]
         ELSE scan(reg, r, l, col + 1)
    ELSE IF ch = on
    THEN IF col \div 3 \notin DOMAIN reg
         THEN [register |-> reg, error |-> Panic]
         ELSE scan([reg EXCEPT ![col \div 3] = BitOr(@, bit_pos(r, col % 3))],
                   r, l, col + 1)
    ELSE IF ch # " "
    THEN [register |-> reg,
          error |-> ScanError(expected_on_message(on, ch), col)]
    ELSE scan(reg, r, l, col + 1)

\* the body of that loop for the character ch at column col
scan_char(reg, r, l, col, ch, on) ==
    IF ~is_whitespace(ch) /\ col \div 3 > 8
    THEN [register |-> reg, error |-> ScanError(too_long_message, col)]
    ELSE IF on = NUL
    THEN IF ch # " "
         THEN [register |-> reg,
               error |-> ScanError(expected_space_message(ch), col)]
         ELSE scan(reg, r, l, col + 1)
    ELSE IF ch = on
    THEN IF col \div 3 \notin DOMAIN reg
         THEN [register |-> reg, error |-> Panic]
         ELSE scan([reg EXCEPT ![col \div 3] = BitOr(@, bit_pos(r, col % 3))],
                   r, l, col + 1)
    ELSE IF ch # " "
    THEN [register |-> reg,
          error |-> ScanError(expected_on_message(on, ch), col)]
    ELSE scan(reg, r, l, col + 1)

\* the loop of process_line asking a glyph row for all of its 27 columns
scan_whole_row(reg, r, l, col) ==
    IF col >= Len(l)
    THEN IF r < 3 /\ col < 3 * NumDigits
         THEN [register |-> reg,
               error |-> ScanError("Input line is too short.", col)]
         ELSE [register |-> reg, error |-> NoError]
    ELSE scan_char(reg, r, l, col, l[col + 1], on_char(r, col % 3))

scan(reg, r, l, col) ==
    IF col >= Len(l) THEN [register |-> reg, error |-> NoError]
    ELSE scan_char(reg, r, l, col, l[col + 1], on_char(r, col % 3))

\* build_error with a 1-based column
build_error_one_based(message, col, ln) == Error(message, ln, col + 1, row(ln))

\* Parser::build_error, with the line counter ln
build_error(message, col, ln) == Error(message, ln, col, row(ln))

\* Status of an entry taken for legible whatever its register reads as
status_of_legible(read) == Success(read.account_number)

\* Status of an entry whose register reads as read
status_of(read) ==
    IF read.success THEN Success(read.account_number)
    ELSE BadDigits(read.account_number, read.alternates)

\* the tail of process_line with `row < 2` for `row < 3`
finish_early(r, reg) == IF r < 2 THEN Incomplete ELSE status_of(read_register(reg))

\* the tail of process_line that reads the register after every line
finish_any_row(r, reg) == status_of(read_register(reg))

\* the tail of process_line, after a scan without error
finish(r, reg) == IF r < 3 THEN Incomplete ELSE status_of(read_register(reg))

\* process_line without its skip flag
never_skips(r, skipping) == FALSE

\* a skip flag that the first line of an entry does not override
skips_any_row(r, skipping) == skipping

\* does process_line return before it scans?
skips(r, skipping) == r # 0 /\ skipping

\* process_line once its loop has ended as s tells
after_scan(s, ln) ==
    CASE s.error = NoError ->
            [register |-> s.register, line_number |-> ln,
             skip |-> FALSE, status |-> finish(row(ln), s.register)]
      [] s.error = Panic ->
            [register |-> s.register, line_number |-> ln,
             skip |-> FALSE, status |-> Panic]
      [] OTHER ->
            [register |-> s.register, line_number |-> ln, skip |-> TRUE,
             status |-> build_error(s.error.message, s.error.col, ln)]

\* process_line that counts only the lines it scans
process_line_of_skip_uncounted(reg, ln0, skipping, l) ==
    IF skips(row(ln0 + 1), skipping)
    THEN [register |-> reg, line_number |-> ln0, skip |-> skipping,
          status |-> Incomplete]
    ELSE after_scan(scan(IF row(ln0 + 1) = 0 THEN clear_register(reg) ELSE reg,
                         row(ln0 + 1), l, 0),
                    ln0 + 1)

\* Parser::process_line as a function of the parser's state: the state it
\* leaves and the Status it returns
process_line_of(reg, ln0, skipping, l) ==
    IF skips(row(ln0 + 1), skipping)
    THEN [register |-> reg, line_number |-> ln0 + 1, skip |-> skipping,
          status |-> Incomplete]
    ELSE after_scan(scan(IF row(ln0 + 1) = 0 THEN clear_register(reg) ELSE reg,
                         row(ln0 + 1), l, 0),
                    ln0 + 1)

\* the parser left as after tells
becomes(after) ==
    /\ register' = after.register
    /\ line_number' = after.line_number
    /\ skip' = after.skip
    /\ status' = after.status

\* Parser::process_line on the Processor's parser
process_line(l) ==
    /\ becomes(process_line_of(register, line_number, skip, l))
    /\ line' = l

-----------------------------------------------------------------------------
(* checksum.rs *)

Return(value) == [kind |-> "Return", value |-> value]

PanicWith(message) == [kind |-> "Panic", message |-> message]

\* char::to_digit(10)
to_digit(ch) == CHOOSE d \in 0..9 : Digits[d + 1] = ch

\* is char::to_digit(10) Some?
has_digit(ch) == ch \in DigitChars

\* '\u{be}', the fraction three quarters: numeric to char::is_numeric, without a
\* decimal digit value, two bytes long in UTF-8
THREE_QUARTERS == "U+00BE"

\* char::is_numeric, over the characters used here
char_is_numeric(ch) == ch \in DigitChars \cup {THREE_QUARTERS}

\* char::len_utf8, over the characters used here
len_utf8(ch) == IF ch = THREE_QUARTERS THEN 2 ELSE 1

\* str::len: the length of s in bytes
RECURSIVE str_len(_)
str_len(s) == IF s = <<>> THEN 0 ELSE len_utf8(Head(s)) + str_len(Tail(s))

\* str::is_ascii
is_ascii(s) == \A i \in 1..Len(s) : len_utf8(s[i]) = 1

\* is_numeric that takes every string for numeric
is_numeric_unchecked(account_number) == TRUE

is_numeric(account_number) ==
    \A i \in 1..Len(account_number) : char_is_numeric(account_number[i])

\* does the loop of is_checksum_valid meet a character without a digit
\* value, at which it returns false?
meets_no_digit(account_number) ==
    \E i \in 1..Len(account_number) : ~has_digit(account_number[i])

\* the loop of is_checksum_valid over account_number.chars().rev(): the
\* checksum after the characters i, i-1, .., 1, the first of them weighted
\* by coefficient
RECURSIVE checksum_from(_, _, _, _)
checksum_from(account_number, i, coefficient, checksum) ==
    IF i = 0 THEN checksum
    ELSE checksum_from(account_number, i - 1, coefficient + 1,
                       checksum + to_digit(account_number[i]) * coefficient)

\* is_checksum_valid without the rev(): the leftmost digit weighs 1
RECURSIVE checksum_forward(_, _, _, _)
checksum_forward(account_number, i, coefficient, checksum) ==
    IF i > Len(account_number) THEN checksum
    ELSE checksum_forward(account_number, i + 1, coefficient + 1,
                          checksum + to_digit(account_number[i]) * coefficient)

is_checksum_valid_forward(account_number) ==
    IF ~is_numeric(account_number)
    THEN PanicWith("account_number must be numeric.")
    ELSE IF str_len(account_number) # 9 THEN Return(FALSE)
    ELSE IF meets_no_digit(account_number) THEN Return(FALSE)
    ELSE Return(checksum_forward(account_number, 1, 1, 0) % 11 = 0)

\* the loop of is_checksum_valid passing over the characters without a
\* digit value
RECURSIVE checksum_skipping(_, _, _, _)
checksum_skipping(account_number, i, coefficient, checksum) ==
    IF i = 0 THEN checksum
    ELSE IF ~has_digit(account_number[i])
    THEN checksum_skipping(account_number, i - 1, coefficient, checksum)
    ELSE checksum_skipping(account_number, i - 1, coefficient + 1,
                           checksum + to_digit(account_number[i]) * coefficient)

\* is_checksum_valid whose loop goes on at a character without a digit value
is_checksum_valid_skipping(account_number) ==
    IF ~is_numeric(account_number)
    THEN PanicWith("account_number must be numeric.")
    ELSE IF str_len(account_number) # 9 THEN Return(FALSE)
    ELSE Return(checksum_skipping(account_number, Len(account_number), 1, 0) % 11 = 0)

\* is_checksum_valid without its test of the length
is_checksum_valid_any_length(account_number) ==
    IF ~is_numeric(account_number)
    THEN PanicWith("account_number must be numeric.")
    ELSE IF meets_no_digit(account_number) THEN Return(FALSE)
    ELSE Return(checksum_from(account_number, Len(account_number), 1, 0) % 11 = 0)

is_checksum_valid(account_number) ==
    IF ~is_numeric(account_number)
    THEN PanicWith("account_number must be numeric.")
    ELSE IF str_len(account_number) # 9 THEN Return(FALSE)
    ELSE IF meets_no_digit(account_number) THEN Return(FALSE)
    ELSE Return(checksum_from(account_number, Len(account_number), 1, 0) % 11 = 0)

\* alternate_digits whose table names 7 for 1 but not 1 for 7
alternate_digits_one_sided(ch) ==
    CASE ch = "0" -> <<"8">>
      [] ch = "1" -> <<"7">>
      [] ch = "2" -> <<>>
      [] ch = "3" -> <<"9">>
      [] ch = "4" -> <<>>
      [] ch = "5" -> <<"6", "9">>
      [] ch = "6" -> <<"5", "8">>
      [] ch = "7" -> <<>>
      [] ch = "8" -> <<"0", "6", "9">>
      [] ch = "9" -> <<"3", "5", "8">>
      [] OTHER -> PanicWith("Character must be in range '0' .. '9'.")

\* alternate_digits with every digit first among its own alternates
alternate_digits_reflexive(ch) ==
    CASE ch = "0" -> <<"0", "8">>
      [] ch = "1" -> <<"1", "7">>
      [] ch = "2" -> <<"2">>
      [] ch = "3" -> <<"3", "9">>
      [] ch = "4" -> <<"4">>
      [] ch = "5" -> <<"5", "6", "9">>
      [] ch = "6" -> <<"6", "5", "8">>
      [] ch = "7" -> <<"7", "1">>
      [] ch = "8" -> <<"8", "0", "6", "9">>
      [] ch = "9" -> <<"9", "3", "5", "8">>
      [] OTHER -> PanicWith("Character must be in range '0' .. '9'.")

\* alternate_digits: the alternates of a digit, or the panic of its last arm
alternate_digits(ch) ==
    CASE ch = "0" -> <<"8">>
      [] ch = "1" -> <<"7">>
      [] ch = "2" -> <<>>
      [] ch = "3" -> <<"9">>
      [] ch = "4" -> <<>>
      [] ch = "5" -> <<"6", "9">>
      [] ch = "6" -> <<"5", "8">>
      [] ch = "7" -> <<"1">>
      [] ch = "8" -> <<"0", "6", "9">>
      [] ch = "9" -> <<"3", "5", "8">>
      [] OTHER -> PanicWith("Character must be in range '0' .. '9'.")

\* the inner loop of find_adjacent at position n, from the k-th alternate
\* of the digit there, with the matches found so far
RECURSIVE adjacent_from(_, _, _, _)

\* the inner loop of find_adjacent putting each match first
adjacent_try_prepend(buffer, n, k, matches, candidate, valid) ==
    IF valid.kind = "Panic" THEN valid
    ELSE adjacent_from(buffer, n, k + 1,
             IF valid.value THEN <<candidate>> \o matches ELSE matches)

\* the inner loop of find_adjacent keeping the candidates that fail
adjacent_try_inverted(buffer, n, k, matches, candidate, valid) ==
    IF valid.kind = "Panic" THEN valid
    ELSE adjacent_from(buffer, n, k + 1,
             IF valid.value THEN matches ELSE Append(matches, candidate))

\* the body of the inner loop for candidate, valid being its checksum test
adjacent_try(buffer, n, k, matches, candidate, valid) ==
    IF valid.kind = "Panic" THEN valid
    ELSE adjacent_from(buffer, n, k + 1,
             IF valid.value THEN Append(matches, candidate) ELSE matches)

\* the inner loop at the k-th of the alternates alts of the digit at n
adjacent_alts(buffer, n, k, matches, alts) ==
    IF k > Len(alts) THEN Return(matches)
    ELSE adjacent_try(buffer, n, k, matches, Substitute(buffer, n, alts[k]),
                      is_checksum_valid(Substitute(buffer, n, alts[k])))

\* find_adjacent passing over a character that is no digit
adjacent_from_lenient(buffer, n, k, matches) ==
    IF buffer[n + 1] \notin DigitChars THEN Return(matches)
    ELSE adjacent_alts(buffer, n, k, matches, alternate_digits(buffer[n + 1]))

adjacent_from(buffer, n, k, matches) ==
    IF buffer[n + 1] \notin DigitChars
    THEN PanicWith("Character must be in range '0' .. '9'.")
    ELSE adjacent_alts(buffer, n, k, matches, alternate_digits(buffer[n + 1]))

\* the outer loop of find_adjacent from position n, found being what the
\* positions before n have left: the matches so far, or a panic
RECURSIVE adjacent_positions(_, _, _)
adjacent_positions(buffer, n, found) ==
    IF found.kind = "Panic" \/ n >= Len(buffer) THEN found
    ELSE adjacent_positions(buffer, n + 1,
                            adjacent_from(buffer, n, 1, found.value))

find_adjacent(account_number) ==
    IF str_len(account_number) # 9
    THEN PanicWith("account_number must be exactly 9 digits.")
    ELSE IF ~is_ascii(account_number)
    THEN PanicWith("account_number must contain only characters '0' though '9'.")
    ELSE adjacent_positions(account_number, 0, Return(<<>>))

-----------------------------------------------------------------------------
(* process.rs: Result and the Processor.  The casts `as u32` of line       *)
(* numbers, columns and rows leave every value below 2^32 as it is, and    *)
(* the line source of this model ends long before that.                    *)

\* Processor::success
success(account_number, ln) ==
    [kind |-> "Success", account_number |-> account_number,
     line_number |-> ln]

\* Processor::bad_checksum
bad_checksum(account_number, alternates, ln) ==
    [kind |-> "BadChecksum", account_number |-> account_number,
     line_number |-> ln, alternates |-> alternates]

\* Processor::bad_digits
bad_digits(account_number, alternates, ln) ==
    [kind |-> "BadDigits", account_number |-> account_number,
     line_number |-> ln, alternates |-> alternates]

\* Processor::error with the column and the row in each other's place
error_swapped(message, ln, col, r) ==
    [kind |-> "Error", message |-> message, line_number |-> ln,
     col |-> r, row |-> col]

\* Processor::error numbering the line within its entry
error_numbered_in_entry(message, ln, col, r) ==
    [kind |-> "Error", message |-> message, line_number |-> r + 1,
     col |-> col, row |-> r]

\* Processor::error
error(message, ln, col, r) ==
    [kind |-> "Error", message |-> message, line_number |-> ln,
     col |-> col, row |-> r]

\* the loop of Processor::next goes round again
Pending == [kind |-> "Pending"]

\* Option::None
None == [kind |-> "None"]

\* alternates.into_iter().filter(|alt| is_checksum_valid(alt)).collect()
RECURSIVE filter_valid(_)

\* the filter that keeps every alternate
filter_keep_all(alt, valid, rest) ==
    IF valid.kind = "Panic" THEN valid
    ELSE IF rest.kind = "Panic" THEN rest
    ELSE Return(<<alt>> \o rest.value)

\* the filter at alt, valid being its checksum test and rest the
\* alternates after it, filtered
filter_keep(alt, valid, rest) ==
    IF valid.kind = "Panic" THEN valid
    ELSE IF rest.kind = "Panic" THEN rest
    ELSE Return((IF valid.value THEN <<alt>> ELSE <<>>) \o rest.value)

filter_valid(alternates) ==
    IF alternates = <<>> THEN Return(<<>>)
    ELSE filter_keep(Head(alternates), is_checksum_valid(Head(alternates)),
                     filter_valid(Tail(alternates)))

\* Processor::next that looks for no alternates of a bad checksum
on_success_no_alternates(account_number, valid, ln) ==
    IF valid.kind = "Panic" THEN Panic
    ELSE IF valid.value THEN success(account_number, ln)
    ELSE bad_checksum(account_number, <<>>, ln)

\* Processor::next that takes every account number read for valid
on_success_trusting(account_number, valid, ln) == success(account_number, ln)

\* Status::Success(account_number), valid being its checksum test
on_success(account_number, valid, ln) ==
    IF valid.kind = "Panic" THEN Panic
    ELSE IF valid.value THEN success(account_number, ln)
    ELSE LET alternates == find_adjacent(account_number)
         IN  IF alternates.kind = "Panic" THEN Panic
             ELSE bad_checksum(account_number, alternates.value, ln)

\* Status::BadDigits, filtered being its alternates filtered
on_bad_digits(account_number, filtered, ln) ==
    IF filtered.kind = "Panic" THEN Panic
    ELSE bad_digits(account_number, filtered.value, ln)

\* the `match status` of Processor::next, the parser's line counter being ln
on_status(st, ln) ==
    CASE st.kind = "Success" ->
           on_success(st.account_number, is_checksum_valid(st.account_number), ln)
      [] st.kind = "BadDigits" ->
           on_bad_digits(st.account_number, filter_valid(st.alternates), ln)
      [] st.kind = "Error" ->
           error(st.message, st.line_number, st.col, st.row)
      [] st.kind = "Incomplete" -> Pending
      [] OTHER -> Panic

-----------------------------------------------------------------------------
(* The line source: 4-line blocks, each the canonical rendering of an      *)
(* account number (the glyphs of the tests of parse.rs), as printed or     *)
(* scribbled on.                                                           *)

\* rows 0..2 of the 3x3 glyph of each digit
Glyph(d) ==
    CASE d = "0" -> << <<" ", "_", " ">>, <<"|", " ", "|">>, <<"|", "_", "|">> >>
      [] d = "1" -> << <<" ", " ", " ">>, <<" ", " ", "|">>, <<" ", " ", "|">> >>
      [] d = "2" -> << <<" ", "_", " ">>, <<" ", "_", "|">>, <<"|", "_", " ">> >>
      [] d = "3" -> << <<" ", "_", " ">>, <<" ", "_", "|">>, <<" ", "_", "|">> >>
      [] d = "4" -> << <<" ", " ", " ">>, <<"|", "_", "|">>, <<" ", " ", "|">> >>
      [] d = "5" -> << <<" ", "_", " ">>, <<"|", "_", " ">>, <<" ", "_", "|">> >>
      [] d = "6" -> << <<" ", "_", " ">>, <<"|", "_", " ">>, <<"|", "_", "|">> >>
      [] d = "7" -> << <<" ", "_", " ">>, <<" ", " ", "|">>, <<" ", " ", "|">> >>
      [] d = "8" -> << <<" ", "_", " ">>, <<"|", "_", "|">>, <<"|", "_", "|">> >>
      [] d = "9" -> << <<" ", "_", " ">>, <<"|", "_", "|">>, <<" ", "_", "|">> >>

\* row r of the rendering of the digit string a: 3 columns per digit
RECURSIVE RenderRow(_, _)
RenderRow(a, r) ==
    IF a = <<>> THEN <<>>
    ELSE Glyph(Head(a))[r + 1] \o RenderRow(Tail(a), r)

\* the three glyph rows of a and the empty line that closes the entry
Render(a) == <<RenderRow(a, 0), RenderRow(a, 1), RenderRow(a, 2), <<>>>>

Repeat(d) == <<d, d, d, d, d, d, d, d, d>>

\* the account numbers the line source prints
Accounts ==
    {Repeat(d) : d \in DigitChars} \cup
    { <<"1", "2", "3", "4", "5", "6", "7", "8", "9">>,
      <<"0", "0", "0", "0", "0", "0", "0", "5", "1">>,
      <<"4", "9", "0", "0", "6", "7", "7", "1", "5">>,
      <<"7", "2", "3", "4", "5", "6", "7", "8", "9">>,
      <<"4", "9", "8", "0", "6", "1", "7", "1", "5">>,
      <<"4", "9", "0", "0", "6", "7", "1", "1", "5">> }

\* the account numbers whose rendering is also scribbled on
EditAccounts ==
    { <<"4", "9", "0", "0", "6", "7", "7", "1", "5">>,
      <<"1", "2", "3", "4", "5", "6", "7", "8", "9">> }

Alphabet == {" ", "_", "|", "x", "\t"}

\* the line l with ch at column c (0-based), padded with spaces up to c
RECURSIVE PutLine(_, _, _)
PutLine(l, c, ch) ==
    IF c > Len(l) THEN PutLine(Append(l, " "), c, ch)
    ELSE SubSeq(l, 1, c) \o <<ch>> \o SubSeq(l, c + 2, Len(l))

\* the block b with ch at column c of its line r (0-based)
Put(b, r, c, ch) == [b EXCEPT ![r + 1] = PutLine(@, c, ch)]

\* the block b with only its line r cut to n columns
CutLine(b, r, n) == [b EXCEPT ![r + 1] = IF Len(@) > n THEN SubSeq(@, 1, n) ELSE @]

\* the block b with its glyph rows cut to n columns
Cut(b, n) == CutLine(CutLine(CutLine(b, 0, n), 1, n), 2, n)

Rows == 0..3

PairCols == {1, 12, MaxCol - 1}

PairChars == {" ", "x"}

Printed == {Render(a) : a \in Accounts}

Scribbled ==
    {Put(Render(a), r, c, ch) :
        a \in EditAccounts, r \in Rows, c \in 0..MaxCol, ch \in Alphabet}

ScribbledTwice ==
    {Put(Put(Render(a), r1, c1, ch1), r2, c2, ch2) :
        a \in {<<"4", "9", "0", "0", "6", "7", "7", "1", "5">>},
        r1 \in Rows, c1 \in PairCols, ch1 \in PairChars,
        r2 \in Rows, c2 \in PairCols, ch2 \in PairChars}

Short ==
    {Cut(Render(a), n) : a \in EditAccounts, n \in 0..(3 * NumDigits - 1)}
    \cup {CutLine(Render(a), r, n) :
            a \in EditAccounts, r \in 0..2, n \in {0, 3 * NumDigits - 3}}

\* the 4-line blocks the line source yields
Blocks == Printed \cup Scribbled \cup ScribbledTwice \cup Short

\* the blocks that may stand next to any block: of two consecutive blocks
\* of the source, one is among these
Samples ==
    Printed \cup
    {Put(Render(a), r, c, ch) :
        a \in {<<"1", "2", "3", "4", "5", "6", "7", "8", "9">>},
        r \in Rows, c \in PairCols, ch \in PairChars}

\* the blocks that may follow the block whose lines are previous
Following(previous) ==
    IF previous = <<>> \/ previous \in Samples THEN Blocks ELSE Samples

-----------------------------------------------------------------------------
(* The Processor pulling lines through the Parser *)

Init ==
    /\ register = NewRegister
    /\ line_number = 0
    /\ skip = FALSE
    /\ status = Incomplete
    /\ lines = <<>>
    /\ taken = 0
    /\ line = <<>>
    /\ result = Pending
    /\ entry = <<>>
    /\ statuses = <<>>
    /\ emitted = <<>>
    /\ discarded = FALSE
    /\ returned = <<>>
    /\ called = "none"
    /\ arg = <<>>
    /\ ret = Pending

\* one round of the loop of Processor::next on the line l, for which the
\* source gave up n lines and holds rest after them
RoundTaking(l, rest, n) ==
    /\ process_line(l)
    /\ lines' = rest
    /\ taken' = taken + n
    /\ result' = on_status(status', line_number')
    /\ entry' = IF row(line_number') = 0 THEN <<l>> ELSE Append(entry, l)
    /\ statuses' = IF row(line_number') = 0 THEN <<status'>>
                   ELSE Append(statuses, status')
    /\ emitted' = (IF row(line_number') = 0 THEN <<>> ELSE emitted)
                    \o (IF result' = Pending THEN <<>> ELSE <<result'>>)
    /\ discarded' = IF row(line_number') = 0
                    THEN \E i \in 1..Len(statuses) : statuses[i].kind = "Error"
                    ELSE discarded
    /\ UNCHANGED checksumVars

\* a round that reads one line ahead: it takes the line after l as well
Round_ahead(l, rest) ==
    /\ IF rest = <<>> THEN RoundTaking(l, rest, 1)
       ELSE RoundTaking(l, Tail(rest), 2)
    /\ UNCHANGED returned

\* one round of the loop of Processor::next whose lines.next() is Some(l),
\* rest being what the source holds after it
Round(l, rest) ==
    /\ RoundTaking(l, rest, 1)
    /\ UNCHANGED returned

\* lines.next() is Some(line): the next line of the block being read, or
\* the first line of a new block
NextSome ==
    /\ result # None
    /\ result # Panic
    /\ line_number < MaxLines
    /\ IF lines # <<>> THEN Round(Head(lines), Tail(lines))
       ELSE \E b \in Following(entry) : Round(Head(b), Tail(b))

\* lines.next() is None: the source has ended, wherever it is in a block
NextNone ==
    /\ result # None
    /\ result # Panic
    /\ result' = None
    /\ lines' = <<>>
    /\ UNCHANGED <<register, line_number, skip, status, taken, line, entry,
                   statuses, emitted, discarded, returned>>
    /\ UNCHANGED checksumVars

Next == NextSome \/ NextNone

Spec == Init /\ [][Next]_vars

\* Round, the line number of the Result it returns, if it returns one, being
\* recorded after those of the Results returned before
RoundRecorded(l, rest) ==
    /\ RoundTaking(l, rest, 1)
    /\ returned' = IF result' = Pending \/ result' = Panic THEN returned
                   ELSE Append(returned, result'.line_number)

\* NextSome with the line numbers recorded
NextSomeRecorded ==
    /\ result # None
    /\ result # Panic
    /\ line_number < MaxLines
    /\ IF lines # <<>> THEN RoundRecorded(Head(lines), Tail(lines))
       ELSE \E b \in Following(entry) : RoundRecorded(Head(b), Tail(b))

NextRecorded == NextSomeRecorded \/ NextNone

\* the Processor with the history of the line numbers it has returned
SpecRecorded == Init /\ [][NextRecorded]_vars

-----------------------------------------------------------------------------
(* checksum.rs called on its own, on one argument per behaviour *)

\* the strings that differ from s in at most n positions from index i on
RECURSIVE Changed(_, _, _)
Changed(s, i, n) ==
    IF n = 0 \/ i > Len(s) THEN {s}
    ELSE Changed(s, i + 1, n) \cup
         UNION {Changed(Substitute(s, i - 1, d), i + 1, n - 1) : d \in DigitChars}

Bases ==
    { <<"1", "2", "3", "4", "5", "6", "7", "8", "9">>,
      <<"4", "9", "0", "0", "6", "7", "7", "1", "5">>,
      <<"4", "9", "8", "0", "6", "1", "7", "1", "5">>,
      <<"1", "2", "3", "4", "5", "6", "1", "8", "9">>,
      <<"0", "0", "0", "0", "0", "0", "0", "0", "0">>,
      <<"5", "0", "0", "0", "0", "0", "3", "0", "1">>,
      <<"1", "3", "5", "8", "0", "2", "5", "3", "9">>,
      <<"8", "8", "8", "8", "8", "8", "8", "8", "8">> }

\* a valid number, one of a bad checksum, and the strings of
\* can_validate_checksum that are a digit short and a digit long
Tested ==
    { <<"1", "2", "3", "4", "5", "6", "7", "8", "9">>,
      <<"1", "2", "3", "4", "5", "6", "7", "8", "8">>,
      <<"0", "0", "0", "0", "0", "0", "1", "9">>,
      <<"0", "0", "0", "0", "0", "0", "0", "0", "1", "9">> }

\* strings of digits of every length from 0 to 10
WrongLength ==
    {SubSeq(s, 1, n) : s \in Bases, n \in 0..8}
    \cup {s \o <<d>> : s \in Bases, d \in {"0", "9"}}
    \cup Tested

\* characters that are no decimal digits
NonDigits == {"x", "?", " ", THREE_QUARTERS}

\* a number none of whose digits has an alternate
Unalterable == <<"2", "4", "2", "4", "2", "4", "2", "4", "2">>

\* the tested strings, and that number, with one character that is no digit
Defaced ==
    UNION {{Substitute(s, n, ch) : n \in 0..(Len(s) - 1), ch \in NonDigits} :
              s \in Tested \cup {Unalterable}}

\* the arguments of the calls
Inputs ==
    UNION {Changed(s, 1, MaxChanged) : s \in Bases} \cup WrongLength \cup Defaced

InitChecksum ==
    /\ register = NewRegister
    /\ line_number = 0
    /\ skip = FALSE
    /\ status = Incomplete
    /\ lines = <<>>
    /\ taken = 0
    /\ line = <<>>
    /\ result = Pending
    /\ entry = <<>>
    /\ statuses = <<>>
    /\ emitted = <<>>
    /\ discarded = FALSE
    /\ returned = <<>>
    /\ called = "none"
    /\ arg \in Inputs
    /\ ret = Pending

CallIsChecksumValid ==
    /\ called = "none"
    /\ called' = "is_checksum_valid"
    /\ ret' = is_checksum_valid(arg)
    /\ UNCHANGED arg
    /\ UNCHANGED parserVars

CallFindAdjacent ==
    /\ called = "none"
    /\ called' = "find_adjacent"
    /\ ret' = find_adjacent(arg)
    /\ UNCHANGED arg
    /\ UNCHANGED parserVars

NextChecksum == CallIsChecksumValid \/ CallFindAdjacent

SpecChecksum == InitChecksum /\ [][NextChecksum]_vars

-----------------------------------------------------------------------------
(* The segment codec and the table of alternate_digits called on their     *)
(* own, on one register element per behaviour                              *)

\* the values of a register element, a u8
Bytes == 0..255

InitCodec ==
    /\ register = NewRegister
    /\ line_number = 0
    /\ skip = FALSE
    /\ status = Incomplete
    /\ lines = <<>>
    /\ taken = 0
    /\ line = <<>>
    /\ result = Pending
    /\ entry = <<>>
    /\ statuses = <<>>
    /\ emitted = <<>>
    /\ discarded = FALSE
    /\ returned = <<>>
    /\ called = "none"
    /\ arg \in Bytes
    /\ ret = Pending

CallReadRegisterDigit ==
    /\ called = "none"
    /\ called' = "read_register_digit"
    /\ ret' = Return(read_register_digit(arg))
    /\ UNCHANGED arg
    /\ UNCHANGED parserVars

CallCloseMatches ==
    /\ called = "none"
    /\ called' = "find_register_digit_close_matches"
    /\ ret' = Return(find_register_digit_close_matches(arg))
    /\ UNCHANGED arg
    /\ UNCHANGED parserVars

\* alternate_digits on the character that arg decodes to
CallAlternateDigits ==
    /\ called = "none"
    /\ called' = "alternate_digits"
    /\ ret' = IF read_register_digit(arg) \in DigitChars
              THEN Return(alternate_digits(read_register_digit(arg)))
              ELSE alternate_digits(read_register_digit(arg))
    /\ UNCHANGED arg
    /\ UNCHANGED parserVars

NextCodec == CallReadRegisterDigit \/ CallCloseMatches \/ CallAlternateDigits

SpecCodec == InitCodec /\ [][NextCodec]_vars

-----------------------------------------------------------------------------
(* What the properties below speak of *)

\* the character ch at column col of a line of row r breaks the grid rules
Violates(r, col, ch) ==
    \/ col >= 3 * NumDigits /\ ~is_whitespace(ch)
    \/ on_char(r, col % 3) = NUL /\ ch # " "
    \/ on_char(r, col % 3) # NUL /\ ch \notin {" ", on_char(r, col % 3)}

\* the columns of the line l of row r that break the grid rules
ViolatingCols(r, l) == {col \in 0..(Len(l) - 1) : Violates(r, col, l[col + 1])}

Leftmost(cols) == CHOOSE col \in cols : \A other \in cols : col <= other

\* the entry being read is the whole rendering of the account number a
Fed(a) == entry = Render(a)

ThreeIncompleteThen(last) == <<Incomplete, Incomplete, Incomplete, last>>

\* the slots of the register that decode to illegible
IllegibleSlots ==
    {index \in 0..(NumDigits - 1) : read_register_digit(register[index]) = ILLEGIBLE}

\* the register read slot by slot
Decoded == [i \in 1..NumDigits |-> read_register_digit(register[i - 1])]

\* the fourth line of the entry has been processed and no line of the entry
\* returned an Error
FourthLineRead ==
    /\ Len(statuses) = 4
    /\ \A i \in 1..4 : statuses[i].kind # "Error"

\* the bits of the pattern p whose flip gives the pattern of a digit
FlipBits(p) == {n \in 0..6 : read_register_digit(BitXor(p, n)) # ILLEGIBLE}

\* the i-th smallest member of the set of numbers S
Nth(S, i) == CHOOSE n \in S : Cardinality({m \in S : m < n}) = i - 1

\* 9*d1 + 8*d2 + .. + 1*d9 of the 9-digit string s
WeightedSum(s) ==
    9 * to_digit(s[1]) + 8 * to_digit(s[2]) + 7 * to_digit(s[3])
      + 6 * to_digit(s[4]) + 5 * to_digit(s[5]) + 4 * to_digit(s[6])
      + 3 * to_digit(s[7]) + 2 * to_digit(s[8]) + 1 * to_digit(s[9])

NineDigits(s) == Len(s) = 9 /\ \A i \in 1..Len(s) : s[i] \in DigitChars

PassesChecksum(s) == NineDigits(s) /\ WeightedSum(s) % 11 = 0

-----------------------------------------------------------------------------
(* Properties *)

\* C1: an entry that is the canonical rendering of a 9-digit account number
\* followed by an empty line returns Incomplete for its three glyph rows and
\* Success with exactly that account number for its fourth line.
C1_CanonicalEntryParses ==
    \A a \in Accounts :
        Fed(a) => statuses = ThreeIncompleteThen(Success(a))

C1_Witness ==
    /\ Fed(<<"1", "2", "3", "4", "5", "6", "7", "8", "9">>)
    /\ status = Success(<<"1", "2", "3", "4", "5", "6", "7", "8", "9">>)
    /\ line_number = 8

\* C2: a scanned line with a character that breaks the grid rules returns an
\* Error with the parser's line count (the count before the call plus one),
\* the row that count gives and the column of the leftmost such character,
\* and the register has gained only bits of on-characters left of it.
C2_ErrorAtLeftmostViolation ==
    [][ (/\ line_number' = line_number + 1
         /\ ~skips(row(line_number'), skip)
         /\ ViolatingCols(row(line_number'), line') # {})
        => (/\ status'.kind = "Error"
            /\ status'.line_number = line_number + 1
            /\ status'.row = (status'.line_number - 1) % 4
            /\ status'.col = Leftmost(ViolatingCols(row(line_number'), line'))
            /\ \A dig \in 0..(NumDigits - 1) : \A bit \in 0..7 :
                 TestBit(register'[dig], bit) <=>
                    \/ row(line_number') # 0 /\ TestBit(register[dig], bit)
                    \/ \E col \in 0..(status'.col - 1) :
                          /\ col \div 3 = dig
                          /\ bit_pos(row(line_number'), col % 3) = bit
                          /\ line'[col + 1] = on_char(row(line_number'), col % 3)) ]_vars

\* two characters of one line break the rules and the Error names the left one
C2_Witness ==
    /\ status.kind = "Error"
    /\ line_number = 6
    /\ Cardinality(ViolatingCols(row(line_number), line)) = 2
    /\ status.col = 12
    /\ register[3] # 0
    /\ register[4] = 1

\* C3: once a line of an entry has returned an Error, every later line of
\* that entry returns Incomplete, whatever it holds.
C3_SilentAfterError ==
    \A i \in 1..Len(statuses) : \A j \in 1..Len(statuses) :
        (i < j /\ statuses[i].kind = "Error") => statuses[j] = Incomplete

\* an Error on row 1, then a row-2 line that breaks the rules and the
\* separator: both Incomplete
C3_Witness ==
    /\ Len(statuses) = 4
    /\ statuses[2].kind = "Error"
    /\ ViolatingCols(2, entry[3]) # {}
    /\ statuses[3] = Incomplete
    /\ statuses[4] = Incomplete

\* C4: the row-0 line after an entry that returned an Error is scanned with
\* the skip flag cleared and the register zeroed (the register then holds
\* the top segments of that line alone), and a well-formed entry after a
\* discarded one returns Incomplete three times and Success with its digits.
C4_ResynchronizesAtRowZero ==
    discarded =>
        /\ Len(entry) = 1 =>
              /\ status.kind \in {"Incomplete", "Error"}
              /\ skip = (status.kind = "Error")
              /\ \A dig \in 0..(NumDigits - 1) :
                    register[dig] =
                        IF \E col \in 0..(Len(line) - 1) :
                              /\ col \div 3 = dig
                              /\ col % 3 = 1
                              /\ line[col + 1] = "_"
                              /\ status.kind = "Error" => col < status.col
                        THEN 1 ELSE 0
        /\ \A a \in Accounts :
              Fed(a) => statuses = ThreeIncompleteThen(Success(a))

\* an entry discarded with bits left in the register, then 111111111
C4_Witness ==
    /\ discarded
    /\ Fed(<<"1", "1", "1", "1", "1", "1", "1", "1", "1">>)
    /\ status = Success(<<"1", "1", "1", "1", "1", "1", "1", "1", "1">>)

\* C5: every complete 4-line block gives exactly one Result: an Error for
\* the first line of the block that breaks the grid rules, or else a
\* Success, BadChecksum or BadDigits when the fourth line is processed; and
\* no block ever gives a second Result.
C5_OneResultPerBlock ==
    /\ Len(emitted) <= 1
    /\ Len(entry) = 4 =>
          /\ Len(emitted) = 1
          /\ LET broken == {i \in 1..4 : ViolatingCols(i - 1, entry[i]) # {}}
             IN  IF broken # {}
                 THEN /\ emitted[1].kind = "Error"
                      /\ emitted[1].line_number = line_number - 4 + Leftmost(broken)
                 ELSE /\ emitted[1].kind \in {"Success", "BadChecksum", "BadDigits"}
                      /\ emitted[1].line_number = line_number
                      /\ result = emitted[1] \/ result = None

\* a block whose second and third lines both break the rules: one Error
C5_Witness ==
    /\ Len(entry) = 4
    /\ ViolatingCols(1, entry[2]) # {}
    /\ ViolatingCols(2, entry[3]) # {}
    /\ Len(emitted) = 1
    /\ emitted[1].kind = "Error"
    /\ emitted[1].line_number = 2

\* C6: on Success(number) the Processor returns Success with that number
\* when is_checksum_valid holds of it, and otherwise BadChecksum with that
\* number and all of find_adjacent(number), however many there are.
C6_SuccessSplitsOnChecksum ==
    (status.kind = "Success" /\ result # None) =>
        result = IF is_checksum_valid(status.account_number) = Return(TRUE)
                 THEN [kind |-> "Success",
                       account_number |-> status.account_number,
                       line_number |-> line_number]
                 ELSE [kind |-> "BadChecksum",
                       account_number |-> status.account_number,
                       line_number |-> line_number,
                       alternates |-> find_adjacent(status.account_number).value]

\* 490067715 fails the checksum and has three adjacent numbers
C6_Witness ==
    /\ status = Success(<<"4", "9", "0", "0", "6", "7", "7", "1", "5">>)
    /\ result.kind = "BadChecksum"
    /\ Len(result.alternates) = 3

\* C7: on a string of exactly 9 digits is_checksum_valid returns true
\* exactly when 9*d1 + 8*d2 + .. + 1*d9 is a multiple of 11.
C7_ChecksumIsWeightedSum ==
    (called = "is_checksum_valid" /\ NineDigits(arg)) =>
        ret = Return(WeightedSum(arg) % 11 = 0)

C7_Witness ==
    /\ called = "is_checksum_valid"
    /\ arg = <<"1", "2", "3", "4", "5", "6", "7", "8", "9">>
    /\ ret = Return(TRUE)

\* the substitutions find_adjacent keeps: position n, k-th alternate
Kept(s) ==
    {p \in (0..(Len(s) - 1)) \X (1..3) :
        /\ p[2] <= Len(alternate_digits(s[p[1] + 1]))
        /\ PassesChecksum(Substitute(s, p[1], alternate_digits(s[p[1] + 1])[p[2]]))}

\* position-major, then table order
Before(p, q) == p[1] < q[1] \/ (p[1] = q[1] /\ p[2] < q[2])

\* C8: find_adjacent(s) lists, position by position and alternate by
\* alternate in table order, s with that one digit substituted wherever the
\* result passes the checksum: nothing more, nothing moved, nothing merged.
C8_AdjacentInTableOrder ==
    (called = "find_adjacent" /\ NineDigits(arg)) =>
        /\ ret.kind = "Return"
        /\ Len(ret.value) = Cardinality(Kept(arg))
        /\ \A p \in Kept(arg) :
              ret.value[1 + Cardinality({q \in Kept(arg) : Before(q, p)})]
                 = Substitute(arg, p[1], alternate_digits(arg[p[1] + 1])[p[2]])

C8_Witness ==
    /\ called = "find_adjacent"
    /\ arg = <<"1", "2", "3", "4", "5", "6", "1", "8", "9">>
    /\ ret = Return(<< <<"1", "2", "3", "4", "5", "5", "1", "8", "9">>,
                       <<"1", "2", "3", "4", "5", "6", "7", "8", "9">>,
                       <<"1", "2", "3", "4", "5", "6", "1", "6", "9">>,
                       <<"1", "2", "3", "4", "5", "6", "1", "8", "5">> >>)

\* C9: a fourth line processed without error over a register with exactly
\* one illegible slot returns BadDigits: '?' there and the decoded digits
\* elsewhere, and as alternates that string with the '?' replaced by each
\* close match of the slot, in ascending order of the flipped bit.
C9_OneIllegibleDigit ==
    (FourthLineRead /\ Cardinality(IllegibleSlots) = 1) =>
        LET bad == CHOOSE index \in IllegibleSlots : TRUE
            flips == FlipBits(register[bad])
        IN  /\ status.kind = "BadDigits"
            /\ status.account_number = Decoded
            /\ status.account_number[bad + 1] = "?"
            /\ Len(status.alternates) = Cardinality(flips)
            /\ \A i \in 1..Cardinality(flips) :
                  status.alternates[i] =
                     [status.account_number EXCEPT ![bad + 1] =
                         read_register_digit(BitXor(register[bad], Nth(flips, i)))]

\* the 5 of 490067715 without its upper-left stroke: 5 (bit 1), then 3 (bit 3)
C9_Witness ==
    /\ FourthLineRead
    /\ status.kind = "BadDigits"
    /\ status.account_number = <<"4", "9", "0", "0", "6", "7", "7", "1", "?">>
    /\ status.alternates = << <<"4", "9", "0", "0", "6", "7", "7", "1", "5">>,
                              <<"4", "9", "0", "0", "6", "7", "7", "1", "3">> >>

\* C10: a fourth line processed without error over a register with two or
\* more illegible slots returns BadDigits with '?' at each of them, the
\* decoded digits elsewhere and no alternates.
C10_SeveralIllegibleDigits ==
    (FourthLineRead /\ Cardinality(IllegibleSlots) >= 2) =>
        /\ status.kind = "BadDigits"
        /\ status.account_number = Decoded
        /\ \A index \in IllegibleSlots : status.account_number[index + 1] = "?"
        /\ status.alternates = <<>>

\* two illegible slots, the last of them one stroke away from a digit
C10_Witness ==
    /\ FourthLineRead
    /\ Cardinality(IllegibleSlots) = 2
    /\ status.kind = "BadDigits"
    /\ \E index \in IllegibleSlots :
          /\ \A other \in IllegibleSlots : other <= index
          /\ FlipBits(register[index]) # {}

\* the positions of the alternates alts that pass the checksum
ValidPositions(alts) == {i \in 1..Len(alts) : PassesChecksum(alts[i])}

\* C11: when the parser returns BadDigits, the Processor returns BadDigits
\* with the same account number and, as alternates, the parser's alternates
\* that pass the checksum, in the parser's order; an entry whose alternates
\* hold exactly one such candidate returns exactly that candidate.
C11_BadDigitsKeepsValidAlternates ==
    (status.kind = "BadDigits" /\ result # None) =>
        LET keep == ValidPositions(status.alternates)
        IN  /\ result.kind = "BadDigits"
            /\ result.account_number = status.account_number
            /\ Len(result.alternates) = Cardinality(keep)
            /\ \A i \in 1..Cardinality(keep) :
                  result.alternates[i] = status.alternates[Nth(keep, i)]
            /\ \A i \in keep :
                  Cardinality(keep) = 1 => result.alternates = <<status.alternates[i]>>

\* one illegible digit with several close matches, one of which passes
C11_Witness ==
    /\ status.kind = "BadDigits"
    /\ Cardinality(IllegibleSlots) = 1
    /\ Len(status.alternates) >= 2
    /\ Cardinality(ValidPositions(status.alternates)) = 1
    /\ result.kind = "BadDigits"
    /\ Len(result.alternates) = 1

\* C12: when process_line returns an Error, the same call of next returns
\* Result::Error with the parser's message, line number, column and row,
\* and the lines of the entry after the failing one are still in the source.
C12_ErrorForwardedAtOnce ==
    (status.kind = "Error" /\ result # None) =>
        /\ result.kind = "Error"
        /\ result.message = status.message
        /\ result.line_number = status.line_number
        /\ result.col = status.col
        /\ result.row = status.row
        /\ Len(emitted) >= 1
        /\ emitted[Len(emitted)] = result
        /\ Len(entry) = status.row + 1
        /\ Len(entry) + Len(lines) = 4

\* an Error on the second line of an entry, at a column other than its row,
\* with the last two lines of the entry still in the source
C12_Witness ==
    /\ status.kind = "Error"
    /\ status.row = 1
    /\ status.col > 1
    /\ result.kind = "Error"
    /\ result.row = 1
    /\ result.col = status.col
    /\ Len(lines) = 2

\* the results that carry an entry or an error
Results == {"Success", "BadChecksum", "BadDigits", "Error"}

\* C13: when next returns a Result, the lines taken from the source so far
\* are as many as the line number of the line that produced the Result: that
\* line is the last one taken, and the lines after it are still in the source.
C13_NoReadAhead ==
    result.kind \in Results =>
        /\ taken = result.line_number
        /\ taken = line_number
        /\ entry[Len(entry)] = line
        /\ Len(entry) + Len(lines) = 4

\* an Error from the second line of the second entry: six lines taken, the
\* last two lines of the entry still to be taken
C13_Witness ==
    /\ result.kind = "Error"
    /\ result.line_number = 6
    /\ taken = 6
    /\ Len(lines) = 2

\* the character of the line just processed at the column of its Error
Offending == line[status.col + 1]

\* C14: the message of an Error is chosen by the offending character ch, at
\* column col of row r: "Input line is too long." when col >= 27 and ch is
\* not whitespace, before any other rule; otherwise "Expected space but
\* found 'ch'." when (r, col mod 3) has no on-character and ch is not a
\* space; otherwise "Expected space or 'on' but found 'ch'.", ch being
\* neither a space nor the on-character of (r, col mod 3).
C14_MessageByFirstViolation ==
    status.kind = "Error" =>
        /\ status.col < Len(line)
        /\ status.col = Leftmost(ViolatingCols(status.row, line))
        /\ LET on == on_char(status.row, status.col % 3)
           IN  IF status.col >= 27 /\ ~is_whitespace(Offending)
               THEN status.message = "Input line is too long."
               ELSE IF on = NUL
               THEN /\ Offending # " "
                    /\ status.message =
                          "Expected space but found '" \o Offending \o "'."
               ELSE /\ Offending \notin {" ", on}
                    /\ status.message =
                          "Expected space or '" \o on \o "' but found '"
                              \o Offending \o "'."

\* a character that is no stroke, past column 26, where the grid has an
\* on-character: the line is too long, whatever else is wrong with it
C14_Witness ==
    /\ status.kind = "Error"
    /\ status.col >= 27
    /\ on_char(status.row, status.col % 3) # NUL
    /\ Offending = "x"
    /\ status.message = "Input line is too long."
    /\ result.kind = "Error"
    /\ result.message = "Input line is too long."

\* the columns of the line l that hold something other than a space
NonSpaceCols(l) == {col \in 0..(Len(l) - 1) : l[col + 1] # " "}

\* the fourth line of the entry has been processed with the skip flag unset:
\* none of the three lines before it returned an Error
FourthLineScanned ==
    /\ Len(statuses) = 4
    /\ \A i \in 1..3 : statuses[i].kind # "Error"

\* C15, as claimed: a fourth line processed with the skip flag unset
\* returns Success or BadDigits whatever characters it holds, and never an
\* Error.
C15_SeparatorNeverChecked ==
    FourthLineScanned => status.kind \in {"Success", "BadDigits"}

\* C15, amended: the fourth line is scanned against a grid without
\* on-characters.  Processed with the skip flag unset, a fourth line of
\* spaces only returns Success or BadDigits as the register alone decides;
\* one with any other character returns an Error of row 3 at the leftmost
\* such character.
C15_SeparatorMustBeBlank ==
    FourthLineScanned =>
        IF NonSpaceCols(line) = {}
        THEN /\ status.kind = (IF IllegibleSlots = {} THEN "Success" ELSE "BadDigits")
             /\ status.account_number = Decoded
        ELSE /\ status.kind = "Error"
             /\ status.row = 3
             /\ status.col = Leftmost(NonSpaceCols(line))
             /\ status.message =
                   (IF status.col >= 27 /\ ~is_whitespace(Offending)
                    THEN "Input line is too long."
                    ELSE "Expected space but found '" \o Offending \o "'.")

\* a fourth line that is not empty and holds spaces only closes a legible
\* entry
C15_Witness ==
    /\ FourthLineScanned
    /\ Len(line) > 0
    /\ NonSpaceCols(line) = {}
    /\ status.kind = "Success"
    /\ result.kind \in {"Success", "BadChecksum"}

\* the Error the parser just returned and the Errors emitted for the entry
ErrorsInSight ==
    (IF status.kind = "Error" THEN {status} ELSE {})
    \cup (IF result.kind = "Error" THEN {result} ELSE {})
    \cup {emitted[i] : i \in {j \in 1..Len(emitted) : emitted[j].kind = "Error"}}

\* C16, as claimed: every Error status and every Error result has its row
\* among 0, 1 and 2, a line number of at least 1 and a column of at least 0.
C16_ErrorRowBelowThree ==
    \A e \in ErrorsInSight :
        e.row \in {0, 1, 2} /\ e.line_number >= 1 /\ e.col >= 0

\* C16, amended: every Error status and every Error result has its row
\* among 0, 1, 2 and 3, the row of its line, a line number of at least 1 and
\* a column of at least 0.
C16_ErrorFieldsInRange ==
    \A e \in ErrorsInSight :
        /\ e.row \in {0, 1, 2, 3}
        /\ e.row = (e.line_number - 1) % 4
        /\ e.line_number >= 1
        /\ e.col >= 0

\* an Error for the fourth line of the second entry
C16_Witness ==
    /\ status.kind = "Error"
    /\ status.row = 3
    /\ status.line_number = 8
    /\ result.kind = "Error"
    /\ result.row = 3
    /\ result.line_number = 8

\* the members of the sequence s
Members(s) == {s[i] : i \in 1..Len(s)}

\* the digits whose pattern differs from the pattern p in exactly one of
\* the bits 0..6
OneStrokeAway(p) ==
    {d \in DigitChars :
        \E q \in Bytes :
            /\ read_register_digit(q) = d
            /\ Cardinality({n \in 0..6 : TestBit(p, n) # TestBit(q, n)}) = 1
            /\ TestBit(p, 7) = TestBit(q, 7)}

\* the alternates of each digit as the specification lists them
ListedAlternates(d) ==
    CASE d = "0" -> {"8"}
      [] d = "1" -> {"7"}
      [] d = "2" -> {}
      [] d = "3" -> {"9"}
      [] d = "4" -> {}
      [] d = "5" -> {"6", "9"}
      [] d = "6" -> {"5", "8"}
      [] d = "7" -> {"1"}
      [] d = "8" -> {"0", "6", "9"}
      [] d = "9" -> {"3", "5", "8"}

\* C17: for every digit d, the digits of alternate_digits(d) are the digits
\* whose pattern differs from the pattern of d in exactly one bit, which are
\* the close matches of the pattern of d and the digits listed for d; no
\* digit is its own alternate, and d is an alternate of each of its
\* alternates.
C17_AlternatesAgreeWithCodec ==
    (called = "alternate_digits" /\ read_register_digit(arg) \in DigitChars) =>
        /\ ret.kind = "Return"
        /\ Members(ret.value) = OneStrokeAway(arg)
        /\ Members(ret.value) = Members(find_register_digit_close_matches(arg))
        /\ Members(ret.value) = ListedAlternates(read_register_digit(arg))
        /\ read_register_digit(arg) \notin Members(ret.value)
        /\ \A e \in Members(ret.value) :
              read_register_digit(arg) \in Members(alternate_digits(e))

\* the pattern of 8, one stroke away from 0, 6 and 9
C17_Witness ==
    /\ called = "alternate_digits"
    /\ arg = 127
    /\ read_register_digit(arg) = "8"
    /\ ret = Return(<<"0", "6", "9">>)

\* the source has ended in the middle of an entry
EndedMidEntry == result = None /\ taken % 4 # 0

\* C18, as claimed: when the source ends in the middle of an entry, no
\* Result has been returned for that entry.
C18_NoResultForPartialEntry ==
    EndedMidEntry => emitted = <<>>

\* C18, amended: when the source ends in the middle of an entry, next
\* returns None, and no Success, BadChecksum or BadDigits has been returned
\* for that entry; an Error has been returned for it if and only if one of
\* its lines breaks the grid rules, and then only one.
C18_PartialEntryYieldsErrorOrNothing ==
    EndedMidEntry =>
        /\ Len(entry) = taken % 4
        /\ Len(emitted) <= 1
        /\ \A i \in 1..Len(emitted) : emitted[i].kind = "Error"
        /\ emitted = <<>> <=>
              \A i \in 1..Len(entry) : ViolatingCols(i - 1, entry[i]) = {}

\* the source ends after the three glyph rows of its second entry, all of
\* them clean
C18_Witness ==
    /\ EndedMidEntry
    /\ taken = 7
    /\ Len(entry) = 3
    /\ \A i \in 1..3 : statuses[i] = Incomplete
    /\ emitted = <<>>

\* is every character of the string s a decimal digit?
DigitsOnly(s) == \A i \in 1..Len(s) : s[i] \in DigitChars

\* the characters char::is_numeric accepts
NumericChars == DigitChars \cup {THREE_QUARTERS}

\* C19, as claimed: is_checksum_valid panics whenever its argument holds a
\* character that is no digit or is not exactly 9 characters long.
C19_PanicsUnlessNineDigits ==
    (called = "is_checksum_valid" /\ ~NineDigits(arg)) => ret.kind = "Panic"

\* C19, amended: is_checksum_valid panics, with "account_number must be
\* numeric.", exactly when its argument holds a character that is not
\* numeric; on any other argument it returns a boolean, which is false
\* unless the argument is 9 digits.
C19_PanicsOnNonNumeric ==
    called = "is_checksum_valid" =>
        IF \E i \in 1..Len(arg) : arg[i] \notin NumericChars
        THEN ret = PanicWith("account_number must be numeric.")
        ELSE /\ ret.kind = "Return"
             /\ ret.value \in BOOLEAN
             /\ ~NineDigits(arg) => ret.value = FALSE

\* a letter among nine characters
C19_Witness ==
    /\ called = "is_checksum_valid"
    /\ Len(arg) = 9
    /\ \E i \in 1..Len(arg) : arg[i] = "x"
    /\ ret.kind = "Panic"

\* C20: on a string of digits whose length is not 9, is_checksum_valid
\* returns false and does not panic.
C20_WrongLengthIsInvalid ==
    (called = "is_checksum_valid" /\ DigitsOnly(arg) /\ Len(arg) # 9) =>
        ret = Return(FALSE)

\* 00000019, whose weighted sum is 11, is a digit short
C20_Witness ==
    /\ called = "is_checksum_valid"
    /\ arg = <<"0", "0", "0", "0", "0", "0", "1", "9">>
    /\ ret = Return(FALSE)

\* does the string s hold a character that is no decimal digit?
HoldsNonDigit(s) == \E i \in 1..Len(s) : s[i] \notin DigitChars

\* C21, as claimed: on every string that holds a character that is no digit
\* is_checksum_valid returns false and does not panic.
C21_NonDigitIsFalse ==
    (called = "is_checksum_valid" /\ HoldsNonDigit(arg)) => ret = Return(FALSE)

\* C21, amended: on a string that holds a character that is no digit
\* is_checksum_valid never returns true: it panics when one of the
\* characters is not numeric, and returns false when all of them are.
C21_NonDigitNeverValid ==
    (called = "is_checksum_valid" /\ HoldsNonDigit(arg)) =>
        IF \A i \in 1..Len(arg) : arg[i] \in NumericChars
        THEN ret = Return(FALSE)
        ELSE ret.kind = "Panic"

\* nine bytes, seven digits among them whose weighted sum is 11, and a
\* numeric character that is no digit
C21_Witness ==
    /\ called = "is_checksum_valid"
    /\ arg = <<THREE_QUARTERS, "0", "0", "0", "0", "0", "1", "9">>
    /\ str_len(arg) = 9
    /\ ret = Return(FALSE)

\* C22: for a string of 9 digits that passes the checksum, find_adjacent
\* returns the empty list: no other digit at any one position, of weight
\* 1 to 9, leaves the weighted sum a multiple of 11.
C22_ValidHasNoAdjacent ==
    (called = "find_adjacent" /\ PassesChecksum(arg)) =>
        /\ ret = Return(<<>>)
        /\ \A weight \in 1..9 : \A d, e \in 0..9 :
              d # e => (weight * d) % 11 # (weight * e) % 11

\* 135802539 passes the checksum; each of its digits but 2 has alternates
C22_Witness ==
    /\ called = "find_adjacent"
    /\ arg = <<"1", "3", "5", "8", "0", "2", "5", "3", "9">>
    /\ PassesChecksum(arg)
    /\ ret = Return(<<>>)

\* the bytes that read_register_digit decodes to the character ch
PatternsOf(ch) == {b \in Bytes : read_register_digit(b) = ch}

\* C23: read_register_digit returns a character for each of the 256 bytes:
\* one of the digits '0'..'9' for exactly 10 of them, one byte per digit
\* and each of them below 128, and '?' for all the others.
C23_DecodeIsTotal ==
    called = "read_register_digit" =>
        /\ ret.kind = "Return"
        /\ ret.value \in DigitChars \cup {"?"}
        /\ ret.value \in DigitChars => (arg < 128 /\ PatternsOf(ret.value) = {arg})
        /\ \A d \in DigitChars : Cardinality(PatternsOf(d)) = 1
        /\ Cardinality({b \in Bytes : read_register_digit(b) # "?"}) = 10
        /\ Cardinality(PatternsOf("?")) = 246

\* the pattern of 0 with bit 7 set as well decodes to no digit
C23_Witness ==
    /\ called = "read_register_digit"
    /\ arg = 251
    /\ ret = Return("?")

\* the byte p with its bit n the other way round
Flipped(p, n) ==
    CHOOSE q \in Bytes : \A m \in 0..7 : TestBit(q, m) = (TestBit(p, m) # (m = n))

\* the bits 0..6 of p whose flip gives the pattern of a digit
DigitFlips(p) == {n \in 0..6 : read_register_digit(Flipped(p, n)) \in DigitChars}

\* C24: for every 7-bit pattern p, find_register_digit_close_matches(p)
\* lists, in ascending order of the bit n = 0..6, the digit that p with bit
\* n flipped decodes to, for each n where that is a digit; the digit that p
\* decodes to is not in the list.
C24_CloseMatchesByBit ==
    (called = "find_register_digit_close_matches" /\ arg < 128) =>
        /\ ret.kind = "Return"
        /\ Len(ret.value) = Cardinality(DigitFlips(arg))
        /\ \A i \in 1..Len(ret.value) :
              ret.value[i] = read_register_digit(Flipped(arg, Nth(DigitFlips(arg), i)))
        /\ read_register_digit(arg) \notin Members(ret.value)

\* the pattern of 8: 0 by bit 2, 6 by bit 3, 9 by bit 4
C24_Witness ==
    /\ called = "find_register_digit_close_matches"
    /\ arg = 127
    /\ DigitFlips(arg) = {2, 3, 4}
    /\ ret = Return(<<"0", "6", "9">>)

\* the Result r is made as its kind promises
WellMade(r) ==
    CASE r.kind = "Success" -> PassesChecksum(r.account_number)
      [] r.kind = "BadChecksum" ->
            /\ NineDigits(r.account_number)
            /\ ~PassesChecksum(r.account_number)
            /\ \A i \in 1..Len(r.alternates) : PassesChecksum(r.alternates[i])
      [] r.kind = "BadDigits" ->
            \A i \in 1..Len(r.alternates) : PassesChecksum(r.alternates[i])
      [] OTHER -> TRUE

\* C25: the account number of every Success returned passes the checksum;
\* that of every BadChecksum is 9 digits and fails it; every alternate of a
\* BadChecksum or a BadDigits is 9 digits and passes it.
C25_ResultsAreWellMade ==
    /\ WellMade(result)
    /\ \A i \in 1..Len(emitted) : WellMade(emitted[i])

\* a BadDigits for the second entry: some of the parser's alternates
\* failed the checksum, the ones returned pass it
C25_Witness ==
    /\ result.kind = "BadDigits"
    /\ Len(result.alternates) >= 1
    /\ Len(status.alternates) > Len(result.alternates)
    /\ taken = 8

\* k illegible sentinels
RECURSIVE Marks(_)
Marks(k) == IF k = 0 THEN <<>> ELSE <<"?">> \o Marks(k - 1)

\* the rendering of the account number a without its last k digit cells
WithoutLast(a, k) == Cut(Render(a), 3 * (NumDigits - k))

\* C26: lines shorter than 27 characters draw no error, and the cells no
\* line covers decode as illegible: the rendering of an account number
\* without its last k >= 1 digit cells returns Incomplete three times and
\* then BadDigits with the first 9 - k digits, '?' in the last k positions
\* and no alternates, the all-zero pattern being no single stroke away from
\* a digit.
C26_ShortLinesReadIllegible ==
    /\ entry \in Short => \A i \in 1..Len(statuses) : statuses[i].kind # "Error"
    /\ \A a \in EditAccounts : \A k \in 1..NumDigits :
          entry = WithoutLast(a, k) =>
              /\ statuses = ThreeIncompleteThen(
                     BadDigits(SubSeq(a, 1, NumDigits - k) \o Marks(k), <<>>))
              /\ \A index \in (NumDigits - k)..(NumDigits - 1) : register[index] = 0
              /\ find_register_digit_close_matches(0) = <<>>

\* 123456789 without its last digit cell
C26_Witness ==
    /\ entry = WithoutLast(<<"1", "2", "3", "4", "5", "6", "7", "8", "9">>, 1)
    /\ status = BadDigits(<<"1", "2", "3", "4", "5", "6", "7", "8", "?">>, <<>>)
    /\ result.kind = "BadDigits"
    /\ result.alternates = <<>>

\* the line l with spaces appended up to n columns
RECURSIVE PadTo(_, _)
PadTo(l, n) == IF Len(l) >= n THEN l ELSE PadTo(Append(l, " "), n)

\* the line l with trailing spaces that reach past column 27
Padded(l) == PadTo(l, (IF Len(l) > 3 * NumDigits THEN Len(l) ELSE 3 * NumDigits) + 2)

\* the line l of row r fails first at a column from 27 on, at a character
\* that is not whitespace
FailsPastLastCell(r, l) ==
    /\ ViolatingCols(r, l) # {}
    /\ Leftmost(ViolatingCols(r, l)) >= 27
    /\ l[Leftmost(ViolatingCols(r, l)) + 1] \notin {" ", "\t"}

\* the line just processed was scanned: no line of the entry before it
\* returned an Error
LineScanned ==
    /\ statuses # <<>>
    /\ \A i \in 1..(Len(statuses) - 1) : statuses[i].kind # "Error"

\* the lines the source may yield next: the next line of the block being
\* read, or the first line of a block
NextLines == IF lines # <<>> THEN {Head(lines)} ELSE {Head(b) : b \in Samples}

\* C27: a line that is scanned returns "Input line is too long." exactly
\* when the first column at which it fails is 27 or more and the character
\* there is not whitespace; spaces from column 27 on draw no error and set
\* no bit: whatever line comes next, the parser returns the same status and
\* is left with the same register for it and for it with trailing spaces
\* appended.
C27_TrailingSpacesAreIgnored ==
    /\ statuses # <<>> =>
          ((status.kind = "Error" /\ status.message = "Input line is too long.")
              <=> (LineScanned /\ FailsPastLastCell(row(line_number), line)))
    /\ result # None =>
          \A l \in NextLines :
              process_line_of(register, line_number, skip, l)
                 = process_line_of(register, line_number, skip, Padded(l))

\* a second glyph row with spaces in columns 27 and 28: no error
C27_Witness ==
    /\ row(line_number) = 1
    /\ Len(line) = 29
    /\ line[28] = " "
    /\ line[29] = " "
    /\ \E col \in 0..26 : line[col + 1] # " "
    /\ ~skip
    /\ status = Incomplete

\* C28: each call of process_line adds exactly 1 to the line counter, on
\* every path: after n calls the counter is n, whether the n-th line was
\* scanned, skipped or returned an Error, and the row used for it is
\* (n - 1) mod 4.
C28_CounterCountsCalls ==
    /\ line_number = taken
    /\ Len(entry) = (IF taken = 0 THEN 0 ELSE ((taken - 1) % 4) + 1)
    /\ status.kind = "Error" =>
          (status.line_number = taken /\ status.row = (taken - 1) % 4)
    /\ status.kind \in {"Success", "BadDigits"} => (taken - 1) % 4 = 3

\* the seventh call skipped its line, the sixth having returned an Error
C28_Witness ==
    /\ taken = 7
    /\ line_number = 7
    /\ Len(statuses) = 3
    /\ statuses[2].kind = "Error"
    /\ statuses[2].line_number = 6
    /\ skip
    /\ status = Incomplete

\* a parser that has processed ln0 lines and starts an entry with nothing
\* left over from them
Fresh(ln0) ==
    [register |-> NewRegister, line_number |-> ln0, skip |-> FALSE,
     status |-> Incomplete]

\* the parser p after the line l
After(p, l) == process_line_of(p.register, p.line_number, p.skip, l)

\* the parser Fresh(ln0) after the first i lines of the block b
RECURSIVE FreshAfter(_, _, _)
FreshAfter(b, i, ln0) ==
    IF i = 0 THEN Fresh(ln0) ELSE After(FreshAfter(b, i - 1, ln0), b[i])

\* C29: the statuses returned for the lines of a block do not depend on the
\* blocks before it: each is the status that a parser with an all-zero
\* register and no skip flag, at the same line number, returns for the
\* same lines, whatever the earlier blocks held (errors, illegible digits,
\* bits left in the register).
C29_BlockStatusesIgnoreHistory ==
    entry # <<>> =>
        status = FreshAfter(entry, Len(entry), taken - Len(entry)).status

\* the second block read to its end and legible, after a first block that
\* returned an Error and left bits in the register
C29_Witness ==
    /\ taken = 8
    /\ discarded
    /\ Len(statuses) = 4
    /\ status.kind = "Success"
    /\ status = FreshAfter(entry, 4, 4).status

\* C30: process_line returns Success or BadDigits only for a line whose
\* number is a multiple of 4 and only when no line of the entry before it
\* returned an Error, so that the skip flag is unset; every line of row 0,
\* 1 or 2 that is scanned without error returns Incomplete.
C30_DecodesOnlyOnFourthLine ==
    /\ status.kind \in {"Success", "BadDigits"} =>
          /\ line_number % 4 = 0
          /\ row(line_number) = 3
          /\ Len(statuses) = 4
          /\ \A i \in 1..3 : statuses[i] = Incomplete
          /\ ~skip
    /\ (statuses # <<>> /\ Len(statuses) < 4 /\ status.kind # "Error") =>
          status = Incomplete

\* a third glyph row scanned without error: Incomplete, the register
\* holding the strokes of all nine digits
C30_Witness ==
    /\ Len(statuses) = 3
    /\ LineScanned
    /\ status = Incomplete
    /\ ViolatingCols(2, line) = {}
    /\ IllegibleSlots = {}

\* the positions of a cell, as <<row, col>>, and those that have an on-character
Cells == (0..3) \X (0..2)

OnCells == {p \in Cells : on_char(p[1], p[2]) # NUL}

\* the bits of a register slot
SlotBits == 0..7

\* C31: the seven positions of a cell that have an on-character have seven
\* different bits, 0..6, and every other position, the two top corners and
\* the whole of row 3, has bit 7; no slot of the register ever reaches 128;
\* and a line after the first of its entry leaves every set bit set.
C31_BitsOnlySet ==
    [][ /\ Cardinality(OnCells) = 7
        /\ {bit_pos(p[1], p[2]) : p \in OnCells} = 0..6
        /\ \A p \in Cells \ OnCells : bit_pos(p[1], p[2]) = 7
        /\ {<<0, 0>>, <<0, 2>>} \cup ({3} \X (0..2)) = Cells \ OnCells
        /\ \A index \in DOMAIN register :
               register[index] < 128 /\ register'[index] < 128
        /\ row(line_number') # 0 =>
               \A index \in DOMAIN register, n \in SlotBits :
                   TestBit(register[index], n) => TestBit(register'[index], n)
      ]_vars

\* a fourth line is read with all seven bits of every slot set
C31_Witness ==
    /\ \A index \in DOMAIN register : register[index] = 127
    /\ status = Success(Repeat("8"))

\* line numbers, each greater than the one before
Ascending(numbers) ==
    \A i \in 1..(Len(numbers) - 1) : numbers[i] < numbers[i + 1]

\* C32: a Success, BadChecksum or BadDigits carries the number of the fourth
\* line of its entry, a multiple of 4, and an Error carries the number of the
\* line that erred, the last line taken; and the line numbers of the Results
\* one Processor has returned, in the order of their return, ascend strictly.
C32_LineNumbersAscend ==
    /\ result.kind \in {"Success", "BadChecksum", "BadDigits"} =>
           /\ result.line_number = taken
           /\ result.line_number % 4 = 0
           /\ Len(entry) = 4
    /\ result.kind = "Error" =>
           /\ result.line_number = taken
           /\ ViolatingCols(Len(entry) - 1, line) # {}
    /\ result.kind \in Results =>
           /\ returned # <<>>
           /\ returned[Len(returned)] = result.line_number
    /\ Ascending(returned)

\* an Error on the second line of the input, then a Success for the entry
\* that ends on the eighth
C32_Witness ==
    /\ returned = <<2, 8>>
    /\ result.kind = "Success"

\* the columns of the line l, a line of row r, that hold the on-character of
\* their position: those where the loop of process_line writes, if it gets
\* there
WriteCols(r, l) ==
    {col \in 0..(Len(l) - 1) :
        on_char(r, col % 3) # NUL /\ l[col + 1] = on_char(r, col % 3)}

\* the loop of the last process_line call got as far as column col
Reached(col) == status.kind = "Error" => col < status.col

\* C33: process_line never indexes the register outside its nine slots.  No
\* call panics; of a line that is scanned, every column the loop reaches
\* that holds its on-character is one of 0..26 and has its bit set in slot
\* col / 3; an on-character at column 27 or later is not reached, the
\* line having been rejected at or before it.
C33_RegisterWritesInBounds ==
    /\ DOMAIN register = 0..(NumDigits - 1)
    /\ status.kind # "Panic"
    /\ result.kind # "Panic"
    /\ LineScanned =>
           \A col \in WriteCols(Len(entry) - 1, line) :
               /\ Reached(col) =>
                      /\ col \div 3 \in DOMAIN register
                      /\ TestBit(register[col \div 3],
                                 bit_pos(Len(entry) - 1, col % 3))
               /\ col >= 3 * NumDigits =>
                      /\ status.kind = "Error"
                      /\ status.col <= col

\* a scanned line with its on-character at a column after the 27th is
\* rejected there as too long
C33_Witness ==
    /\ LineScanned
    /\ \E col \in WriteCols(Len(entry) - 1, line) :
           /\ col >= 3 * NumDigits
           /\ status = Error(too_long_message, line_number, col, Len(entry) - 1)

\* the strings the last round of Processor::next gave to is_checksum_valid:
\* the account number of a Success, the alternates of a BadDigits
Validated ==
    CASE status.kind = "Success" -> {status.account_number}
      [] status.kind = "BadDigits" -> Members(status.alternates)
      [] OTHER -> {}

\* the strings it gave to find_adjacent: the account number of a Success
\* that failed the checksum
Searched ==
    {s \in Validated :
        status.kind = "Success" /\ is_checksum_valid(s) # Return(TRUE)}

\* C34: the Processor never trips an assertion of checksum.rs.  No round of
\* next panics, and every string it gives to is_checksum_valid or to
\* find_adjacent is made of exactly 9 digits, without a '?', so that the
\* call returns.
C34_ChecksumCallsAreWellFormed ==
    /\ result.kind # "Panic"
    /\ \A s \in Validated :
           /\ NineDigits(s)
           /\ ILLEGIBLE \notin Members(s)
           /\ is_checksum_valid(s).kind = "Return"
    /\ \A s \in Searched : find_adjacent(s).kind = "Return"

\* an entry with one illegible digit, whose account number holds a '?': its
\* alternates, several of them, are validated and none passes
C34_Witness ==
    /\ status.kind = "BadDigits"
    /\ ILLEGIBLE \in Members(status.account_number)
    /\ Cardinality(Validated) >= 2
    /\ result.kind = "BadDigits"
    /\ result.alternates = <<>>

\* the positions of the string s that hold the illegible mark
IllegiblePositions(s) == {i \in 1..Len(s) : s[i] = ILLEGIBLE}

\* C35: the account number of a Success is a string of exactly 9 digits;
\* that of a BadDigits is a string of 9 characters, each a digit or '?' and
\* at least one a '?'; and every alternate of a BadDigits is a string of 9
\* digits that is the account number with its one '?' replaced by a digit.
C35_StatusIsWellFormed ==
    /\ status.kind = "Success" => NineDigits(status.account_number)
    /\ status.kind = "BadDigits" =>
           /\ Len(status.account_number) = 9
           /\ Members(status.account_number) \subseteq DigitChars \cup {ILLEGIBLE}
           /\ IllegiblePositions(status.account_number) # {}
           /\ \A alt \in Members(status.alternates) :
                  /\ NineDigits(alt)
                  /\ Cardinality(IllegiblePositions(status.account_number)) = 1
                  /\ \A i \in 1..9 \ IllegiblePositions(status.account_number) :
                         alt[i] = status.account_number[i]

\* a BadDigits with one '?' among eight digits and three alternates
C35_Witness ==
    /\ status.kind = "BadDigits"
    /\ Cardinality(IllegiblePositions(status.account_number)) = 1
    /\ Len(status.alternates) = 3

\* the positions at which the strings s and t of one length differ
Differing(s, t) == {i \in 1..Len(s) : s[i] # t[i]}

\* C36: every candidate find_adjacent returns for a string s of 9 digits is
\* a string of 9 digits that differs from s at exactly one position, so s
\* itself is none of them; no two candidates are equal or differ from s at
\* the same position, so there are 9 of them at most.
C36_CandidatesDifferInOneDigit ==
    (called = "find_adjacent" /\ NineDigits(arg)) =>
        /\ ret.kind = "Return"
        /\ Len(ret.value) <= 9
        /\ \A i \in 1..Len(ret.value) :
               /\ NineDigits(ret.value[i])
               /\ ret.value[i] # arg
               /\ Cardinality(Differing(arg, ret.value[i])) = 1
               /\ \A j \in 1..Len(ret.value) :
                      i # j =>
                          /\ ret.value[i] # ret.value[j]
                          /\ Differing(arg, ret.value[i])
                                 # Differing(arg, ret.value[j])

\* a number with four candidates, each at a position of its own
C36_Witness ==
    /\ called = "find_adjacent"
    /\ NineDigits(arg)
    /\ ret.kind = "Return"
    /\ Cardinality({Differing(arg, ret.value[i]) : i \in 1..Len(ret.value)}) = 4

\* the positions of the string s that hold no decimal digit
NonDigitPositions(s) == {i \in 1..Len(s) : s[i] \notin DigitChars}

\* the panic of find_adjacent on a string s of 9 ASCII characters whose
\* first character that is no digit is at position i: that of
\* is_checksum_valid on the first candidate, if a digit before i has an
\* alternate, and that of alternate_digits on the character if none has
DefacedPanic(s, i) ==
    IF \E j \in 1..(i - 1) : alternate_digits(s[j]) # <<>>
    THEN PanicWith("account_number must be numeric.")
    ELSE PanicWith("Character must be in range '0' .. '9'.")

\* C37: find_adjacent returns no list for an argument that is not a string
\* of exactly 9 digits: it panics, in its assertion of the length if the
\* argument is not 9 bytes long, in its assertion of ASCII if it holds a
\* character of several bytes, and otherwise at the first character that is
\* no digit or at the first candidate tested before it.
C37_FindAdjacentFailsFast ==
    (called = "find_adjacent" /\ ~NineDigits(arg)) =>
        /\ ret.kind = "Panic"
        /\ ret =
             IF str_len(arg) # 9
             THEN PanicWith("account_number must be exactly 9 digits.")
             ELSE IF ~is_ascii(arg)
             THEN PanicWith("account_number must contain only characters '0' though '9'.")
             ELSE DefacedPanic(arg, Leftmost(NonDigitPositions(arg)))

\* 9 characters with an 'x' after four digits that have no alternates:
\* alternate_digits panics on the 'x'
C37_Witness ==
    /\ called = "find_adjacent"
    /\ arg = Substitute(Unalterable, 4, "x")
    /\ ret = PanicWith("Character must be in range '0' .. '9'.")

====
